---- MODULE Spec2Model ----
(***************************************************************************)
(* A model of the Wahoo SYSTM client (class WahooClient): the session      *)
(* (token, riderProfile), the guarded operations with their single HTTP    *)
(* POST, and the in-memory filter / sort / limit pipeline over the workout *)
(* library.                                                                *)
(*                                                                         *)
(* Conventions.  An optional JavaScript value (undefined / null or a       *)
(* value) is a set with at most one element: None or Some(v).  Text the    *)
(* code transforms (toLowerCase, includes, localeCompare) is a sequence of *)
(* one-character strings, so that the transformations are computed;        *)
(* enumeration literals (sortBy, operation names) are plain strings.       *)
(***************************************************************************)
EXTENDS Integers, Sequences, FiniteSets, TLC

None == {}
Some(v) == {v}
Get(o) == CHOOSE v \in o : TRUE

Range(s) == {s[i] : i \in 1..Len(s)}

(***************************************************************************)
(* Text.                                                                   *)
(***************************************************************************)
UpperChars == <<"A","B","C","D","E","F","G","H","I","J","K","L","M",
                "N","O","P","Q","R","S","T","U","V","W","X","Y","Z">>
LowerChars == <<"a","b","c","d","e","f","g","h","i","j","k","l","m",
                "n","o","p","q","r","s","t","u","v","w","x","y","z">>

IsUpper(c) == \E i \in 1..Len(UpperChars) : UpperChars[i] = c

LowerChar(c) ==
  IF IsUpper(c)
    THEN LowerChars[CHOOSE i \in 1..Len(UpperChars) : UpperChars[i] = c]
    ELSE c

\* String.prototype.toLowerCase
toLowerCase(s) == [i \in 1..Len(s) |-> LowerChar(s[i])]

\* String.prototype.includes
includes(hay, needle) ==
  \E k \in 0..(Len(hay) - Len(needle)) :
    \A i \in 1..Len(needle) : hay[k + i] = needle[i]

\* The position of a letter in the alphabet (0 for any other character).
CharRank(c) ==
  LET l == LowerChar(c)
  IN  IF \E i \in 1..Len(LowerChars) : LowerChars[i] = l
        THEN CHOOSE i \in 1..Len(LowerChars) : LowerChars[i] = l
        ELSE 0

RECURSIVE LexCompare(_, _, _)
\* Lexicographic three-way comparison of two texts by key(character).
LexCompare(a, b, caseLevel) ==
  LET Key(c) == IF caseLevel THEN (IF IsUpper(c) THEN 1 ELSE 0) ELSE CharRank(c)
  IN  IF a = <<>> /\ b = <<>> THEN 0
      ELSE IF a = <<>> THEN -1
      ELSE IF b = <<>> THEN 1
      ELSE IF Key(Head(a)) < Key(Head(b)) THEN -1
      ELSE IF Key(Head(a)) > Key(Head(b)) THEN 1
      ELSE LexCompare(Tail(a), Tail(b), caseLevel)

\* String.prototype.localeCompare: letters first, ignoring case; between texts
\* that differ only in case, the lower-case letter sorts first.
localeCompare(a, b) ==
  LET primary == LexCompare(a, b, FALSE)
  IN  IF primary # 0 THEN primary ELSE LexCompare(a, b, TRUE)

\* JavaScript truthiness of an optional string and of an optional number.
TruthyStr(o) == o # None /\ Get(o) # <<>>
TruthyNum(o) == o # None /\ Get(o) # 0

\* x?.toLowerCase()
OptLower(o) == IF o = None THEN None ELSE Some(toLowerCase(Get(o)))

\* Array.prototype.slice(0, n)
slice0(s, n) ==
  LET end == IF n < 0 THEN (IF Len(s) + n < 0 THEN 0 ELSE Len(s) + n)
             ELSE (IF n > Len(s) THEN Len(s) ELSE n)
  IN  SubSeq(s, 1, end)

(***************************************************************************)
(* The workout library: getWorkoutLibrary's and getCyclingWorkouts' filter, *)
(* sort and limit stages, as functions of the fetched catalog.             *)
(***************************************************************************)
Cycling == <<"C","y","c","l","i","n","g">>

\* The fields a caller can pass to getWorkoutLibrary and getCyclingWorkouts.
NoFilters ==
  [sport |-> None, channel |-> None, level |-> None, category |-> None,
   intensity |-> None, fourDpFocus |-> None,
   minDuration |-> None, maxDuration |-> None, minTss |-> None, maxTss |-> None,
   sortBy |-> None, sortDirection |-> None, limit |-> None]

\* item.metrics?.tss ?? 0
TssOf(item) ==
  IF item.metrics = None \/ Get(item.metrics).tss = None
    THEN 0
    ELSE Get(Get(item.metrics).tss)

levelOrder ==
  [l \in {<<"b","a","s","i","c">>,
          <<"i","n","t","e","r","m","e","d","i","a","t","e">>,
          <<"a","d","v","a","n","c","e","d">>} |->
     CASE l = <<"b","a","s","i","c">> -> 1
       [] l = <<"i","n","t","e","r","m","e","d","i","a","t","e">> -> 2
       [] OTHER -> 3]

\* levelOrder[x.level?.toLowerCase()] ?? 0
LevelOf(item) ==
  IF item.level = None \/ toLowerCase(Get(item.level)) \notin DOMAIN levelOrder
    THEN 0
    ELSE levelOrder[toLowerCase(Get(item.level))]

\* A comparator that orders by name whatever the key.
compareValueByName(a, b, sortBy) == localeCompare(a.name, b.name)

\* The comparator's switch over sortBy.
compareValue(a, b, sortBy) ==
  CASE sortBy = "name"     -> localeCompare(a.name, b.name)
    [] sortBy = "duration" -> a.duration - b.duration
    [] sortBy = "tss"      -> TssOf(a) - TssOf(b)
    [] sortBy = "level"    -> LevelOf(a) - LevelOf(b)
    [] OTHER               -> 0

RECURSIVE InsertSortedBeforeEquals(_, _, _, _)
\* x placed before the elements it ties with.
InsertSortedBeforeEquals(x, sorted, sortBy, multiplier) ==
  IF sorted = <<>> THEN <<x>>
  ELSE LET y == sorted[Len(sorted)]
       IN  IF compareValue(y, x, sortBy) * multiplier < 0
             THEN Append(sorted, x)
             ELSE Append(InsertSortedBeforeEquals(x, SubSeq(sorted, 1, Len(sorted) - 1),
                                                  sortBy, multiplier), y)

RECURSIVE InsertSorted(_, _, _, _)
\* x placed after every element it does not precede.
InsertSorted(x, sorted, sortBy, multiplier) ==
  IF sorted = <<>> THEN <<x>>
  ELSE LET y == sorted[Len(sorted)]
       IN  IF compareValue(y, x, sortBy) * multiplier <= 0
             THEN Append(sorted, x)
             ELSE Append(InsertSorted(x, SubSeq(sorted, 1, Len(sorted) - 1),
                                      sortBy, multiplier), y)

RECURSIVE StableSort(_, _, _)
\* Array.prototype.sort with the comparator compareValue * multiplier (a
\* stable sort).
StableSort(s, sortBy, multiplier) ==
  IF s = <<>> THEN <<>>
  ELSE InsertSorted(s[Len(s)],
                    StableSort(SubSeq(s, 1, Len(s) - 1), sortBy, multiplier),
                    sortBy, multiplier)

\* The conversion with the historical multiplier (hours, not minutes).
minutesToSecondsHour(minutes) == minutes * 3600

\* const minSeconds = filters.minDuration * 60 (and maxSeconds likewise)
minutesToSeconds(minutes) == minutes * 60

\* A channel test that accepts every item that has a channel.
channelPresent(itemChannel, wanted) == itemChannel # None

\* item.channel?.toLowerCase() === filters.channel?.toLowerCase()
channelMatches(itemChannel, wanted) == OptLower(itemChannel) = OptLower(wanted)

\* The filter stage of getWorkoutLibrary; filters is None or Some(record).
LibraryFilter(content, filters) ==
  IF filters = None THEN content
  ELSE
    LET f == Get(filters)
        BySport(item)   == OptLower(item.workoutType) = OptLower(f.sport)
        ByChannel(item) == channelMatches(item.channel, f.channel)
        ByLevel(item)   == OptLower(item.level) = OptLower(f.level)
        ByMinDur(item)  == item.duration >= minutesToSeconds(Get(f.minDuration))
        ByMaxDur(item)  == item.duration <= minutesToSeconds(Get(f.maxDuration))
        ByMinTss(item)  == TssOf(item) >= Get(f.minTss)
        ByMaxTss(item)  == TssOf(item) <= Get(f.maxTss)
        c1 == IF TruthyStr(f.sport) THEN SelectSeq(content, BySport) ELSE content
        c2 == IF TruthyStr(f.channel) THEN SelectSeq(c1, ByChannel) ELSE c1
        c3 == IF TruthyStr(f.level) THEN SelectSeq(c2, ByLevel) ELSE c2
        c4 == IF f.minDuration # None THEN SelectSeq(c3, ByMinDur) ELSE c3
        c5 == IF f.maxDuration # None THEN SelectSeq(c4, ByMaxDur) ELSE c4
        c6 == IF f.minTss # None THEN SelectSeq(c5, ByMinTss) ELSE c5
        c7 == IF f.maxTss # None THEN SelectSeq(c6, ByMaxTss) ELSE c6
    IN  c7

\* getWorkoutLibrary after the fetch: filter, then sort.
LibraryQuery(content, filters) ==
  LET sortBy == IF filters # None /\ Get(filters).sortBy \notin {None, Some("")}
                  THEN Get(Get(filters).sortBy) ELSE "name"
      sortDirection ==
                IF filters # None /\ Get(filters).sortDirection \notin {None, Some("")}
                  THEN Get(Get(filters).sortDirection) ELSE "asc"
      multiplier == IF sortDirection = "asc" THEN 1 ELSE -1
  IN  StableSort(LibraryFilter(content, filters), sortBy, multiplier)

\* Base filters that leave the sport open.
baseFiltersAnySport(filters) ==
  LET f == IF filters = None THEN NoFilters ELSE Get(filters)
  IN  [NoFilters EXCEPT
         !.sortBy = f.sortBy,
         !.sortDirection = f.sortDirection,
         !.minDuration = IF TruthyNum(f.minDuration) THEN f.minDuration ELSE None,
         !.maxDuration = IF TruthyNum(f.maxDuration) THEN f.maxDuration ELSE None,
         !.minTss = IF TruthyNum(f.minTss) THEN f.minTss ELSE None,
         !.maxTss = IF TruthyNum(f.maxTss) THEN f.maxTss ELSE None]

\* baseFilters of getCyclingWorkouts: what it hands to getWorkoutLibrary.
baseFilters(filters) ==
  LET f == IF filters = None THEN NoFilters ELSE Get(filters)
  IN  [NoFilters EXCEPT
         !.sport = Some(Cycling),
         !.sortBy = f.sortBy,
         !.sortDirection = f.sortDirection,
         !.minDuration = IF TruthyNum(f.minDuration) THEN f.minDuration ELSE None,
         !.maxDuration = IF TruthyNum(f.maxDuration) THEN f.maxDuration ELSE None,
         !.minTss = IF TruthyNum(f.minTss) THEN f.minTss ELSE None,
         !.maxTss = IF TruthyNum(f.maxTss) THEN f.maxTss ELSE None]

\* A threshold one band lower.
FourDpThresholdLow == 4 - 1

FourDpThreshold == 4
DefaultLimit == 50

\* w.metrics?.ratings?.[focus]: None when any link is missing.
RatingOf(w, focus) ==
  IF w.metrics = None \/ Get(w.metrics).ratings = None
       \/ focus \notin DOMAIN Get(Get(w.metrics).ratings)
    THEN None
    ELSE Some(Get(Get(w.metrics).ratings)[focus])

\* getCyclingWorkouts after getWorkoutLibrary has answered with `workouts`:
\* the cycling-specific filters and the limit.
CyclingFilter(workouts, filters) ==
  LET f == IF filters = None THEN NoFilters ELSE Get(filters)
      ByChannel(w) == w.channel # None
                      /\ includes(toLowerCase(Get(w.channel)), toLowerCase(Get(f.channel)))
      ByCategory(w) == OptLower(w.category) = OptLower(f.category)
      ByIntensity(w) == OptLower(w.intensity) = OptLower(f.intensity)
      ByFocus(w) == LET rating == RatingOf(w, toLowerCase(Get(f.fourDpFocus)))
                    IN  rating # None /\ Get(rating) >= FourDpThreshold
      w1 == IF TruthyStr(f.channel) THEN SelectSeq(workouts, ByChannel) ELSE workouts
      w2 == IF TruthyStr(f.category) THEN SelectSeq(w1, ByCategory) ELSE w1
      w3 == IF TruthyStr(f.intensity) THEN SelectSeq(w2, ByIntensity) ELSE w2
      w4 == IF TruthyStr(f.fourDpFocus) THEN SelectSeq(w3, ByFocus) ELSE w3
      limit == IF f.limit = None THEN DefaultLimit ELSE Get(f.limit)
  IN  slice0(w4, limit)

\* getCyclingWorkouts as a function of the catalog its one fetch returns.
CyclingQuery(content, filters) ==
  CyclingFilter(LibraryQuery(content, Some(baseFilters(filters))), filters)

(***************************************************************************)
(* The client.  A call runs synchronously up to its first await (the guard *)
(* and the fetch of its one POST) and is then in flight until the answer   *)
(* arrives, when its continuation runs to the end without interruption.    *)
(***************************************************************************)
VARIABLES
  token,        \* WahooClient.token: None (null) or Some(text)
  riderProfile, \* WahooClient.riderProfile: None (null) or Some(profile)
  inflight,     \* the calls awaiting the answer to their POST
  last,         \* the call that settled most recently, with its outcome
  authHistory,  \* "none": no authenticate call has settled; "failed": some
                \* have, none normally; "succeeded": one has returned normally
  libContent,   \* library queries as functions: the fetched catalog,
  libFilters,   \* the caller's filters,
  libResult,    \* the sequence returned,
  libOp,        \* and the query that returned it ("idle" before)
  raw,          \* the normalizer as a function: the raw record parsed,
  normalized,   \* the parse's outcome (accepted or not, and the output),
  normOp,       \* and how often the record went through ("idle" before)
  isAuthenticated, \* the server shell's isAuthenticated flag
  startup       \* the server shell's position in main / autoAuthenticate

vars == <<token, riderProfile, inflight, last, authHistory,
          libContent, libFilters, libResult, libOp,
          raw, normalized, normOp, isAuthenticated, startup>>
clientVars == <<token, riderProfile, inflight, last, authHistory>>
libVars == <<libContent, libFilters, libResult, libOp>>
normVars == <<raw, normalized, normOp>>
shellVars == <<isAuthenticated, startup>>
\* What a step of the client alone, and of a library query alone, leaves as
\* it is.
besideClient == <<libVars, normVars, shellVars>>
besideLibrary == <<clientVars, normVars, shellVars>>

\* The number of calls that may be awaiting an answer at once.
MaxInFlight == 2

NoError == [text |-> "", detail |-> None]
NotAuthenticatedError ==
  [text |-> "Not authenticated. Please call authenticate() first.", detail |-> None]

\* ensureAuthenticated passes (does not throw).
ensureAuthenticated(tok) == TruthyStr(tok)

\* callAPI up to its await: the POST is sent.
callAPIFetch(call) == [call EXCEPT !.posts = @ + 1]

\* callAPI sending the request once more after a non-2xx answer.
callAPIRetry(call, response) ==
  IF ~response.ok
    THEN [posts |-> call.posts + 1, threw |-> TRUE, decoded |-> FALSE, data |-> None,
          error |-> [text |-> "API request failed: ",
                     detail |-> Some(response.statusText)]]
    ELSE [posts |-> call.posts, threw |-> FALSE, decoded |-> TRUE,
          data |-> response.data, error |-> NoError]

\* callAPI reading the body before it looks at the status.
callAPIDecodeFirst(call, response) ==
  IF ~response.ok
    THEN [posts |-> call.posts, threw |-> TRUE, decoded |-> TRUE, data |-> None,
          error |-> [text |-> "API request failed: ",
                     detail |-> Some(response.statusText)]]
    ELSE [posts |-> call.posts, threw |-> FALSE, decoded |-> TRUE,
          data |-> response.data, error |-> NoError]

\* callAPI after its await: a non-2xx answer throws before the body is read.
callAPI(call, response) ==
  IF ~response.ok
    THEN [posts |-> call.posts, threw |-> TRUE, decoded |-> FALSE, data |-> None,
          error |-> [text |-> "API request failed: ",
                     detail |-> Some(response.statusText)]]
    ELSE [posts |-> call.posts, threw |-> FALSE, decoded |-> TRUE,
          data |-> response.data, error |-> NoError]

\* A call goes in flight; variables are the GraphQL variables it sends.
Begin(op, args, variables) ==
  /\ Cardinality(inflight) < MaxInFlight
  /\ inflight' = inflight \cup {callAPIFetch([op |-> op, args |-> args,
                                               variables |-> variables, posts |-> 0])}
  /\ UNCHANGED <<token, riderProfile, last, authHistory>>
  /\ UNCHANGED besideClient

\* A guarded call: the guard, then the fetch.
Guarded(op, args, variables) ==
  IF ensureAuthenticated(token)
    THEN Begin(op, args, variables)
    ELSE /\ last' = [op |-> op, posts |-> 0, response |-> None,
                     decoded |-> FALSE, threw |-> TRUE,
                     error |-> NotAuthenticatedError, value |-> None]
         /\ UNCHANGED <<token, riderProfile, inflight, authHistory>>
         /\ UNCHANGED besideClient

\* A call in flight settles: r is callAPI's result, threw / error / value the
\* handler's outcome.
Settle(call, response, r, threw, error, value) ==
  /\ inflight' = inflight \ {call}
  /\ last' = [op |-> call.op, posts |-> r.posts,
              response |-> Some(response), decoded |-> r.decoded,
              threw |-> threw, error |-> error, value |-> value]
  /\ UNCHANGED besideClient

\* A handler that returns pick(data) of a 2xx answer.
Return(call, response, value) ==
  LET r == callAPI(call, response)
  IN  /\ Settle(call, response, r, r.threw, r.error,
                 IF r.threw THEN None ELSE Some(value))
      /\ UNCHANGED <<token, riderProfile, authHistory>>

\* The answers the server can give.  A non-2xx answer carries a status text.
StatusTexts == {"Unauthorized", "Bad Gateway"}
Failures == [ok : {FALSE}, statusText : StatusTexts, data : {None}]
Ok(data) == [ok |-> TRUE, statusText |-> "OK", data |-> data]

Tokens == {<<"t","1">>, <<"t","2">>}

\* A rider profile as the login answer carries it: each power value is
\* Some(number), or None when it is missing, null or not a number.
Profiles ==
  {[nm |-> Some(900), ac |-> Some(450), map |-> Some(350), ftp |-> Some(280)],
   [nm |-> Some(900), ac |-> Some(450), map |-> Some(350), ftp |-> None]}

\* data.loginUser.  user is None when user or user.profiles is null, else
\* Some(profiles) with riderProfile None (null) or Some(profile).
Logins ==
  [status : {"Success", "Error"},
   message : {"Invalid credentials"},
   token : {None, Some(<<>>)} \cup {Some(t) : t \in Tokens},
   user : {None, Some([riderProfile |-> None])}
            \cup {Some([riderProfile |-> Some(p)]) : p \in Profiles}]

(***************************************************************************)
(* authenticate                                                            *)
(***************************************************************************)
authenticate ==
  Begin("authenticate", None, None)

\* The continuation of authenticate on a decoded login answer: the session it
\* leaves and how it ends.
authenticateStore(tok, profile, login) ==
  IF TruthyStr(login.token)
    THEN IF login.user = None
           THEN \* token is assigned, then reading user.profiles throws
                [token |-> login.token, riderProfile |-> profile, threw |-> TRUE,
                 error |-> [text |-> "TypeError", detail |-> None]]
           ELSE [token |-> login.token,
                 riderProfile |-> Get(login.user).riderProfile,
                 threw |-> FALSE, error |-> NoError]
    ELSE [token |-> tok, riderProfile |-> profile, threw |-> TRUE,
          error |-> [text |-> "Authentication failed: ",
                     detail |-> Some(login.message)]]

authenticateResume ==
  \E call \in inflight, response \in Failures \cup {Ok(l) : l \in Logins} :
    /\ call.op = "authenticate"
    /\ LET r == callAPI(call, response)
           s == IF r.threw
                  THEN [token |-> token, riderProfile |-> riderProfile,
                        threw |-> TRUE, error |-> r.error]
                  ELSE authenticateStore(token, riderProfile, r.data)
       IN  /\ token' = s.token
           /\ riderProfile' = s.riderProfile
           /\ authHistory' = IF ~s.threw THEN "succeeded"
                             ELSE IF authHistory = "none" THEN "failed"
                             ELSE authHistory
           /\ Settle(call, response, r, s.threw, s.error,
                     IF s.threw THEN None ELSE Some("void"))

\* getRiderProfile: synchronous, no guard, no request.
getRiderProfile ==
  /\ last' = [op |-> "getRiderProfile", posts |-> 0, response |-> None, decoded |-> FALSE, threw |-> FALSE,
              error |-> NoError, value |-> Some(riderProfile)]
  /\ UNCHANGED <<token, riderProfile, inflight, authHistory>>
  /\ UNCHANGED besideClient

(***************************************************************************)
(* The guarded operations.                                                 *)
(***************************************************************************)
getCalendarWorkouts ==
  Guarded("getCalendarWorkouts", None, None)

getCalendarWorkoutsResume ==
  \E call \in inflight,
     response \in Failures \cup {Ok([userPlan |-> u]) : u \in {<<>>, <<"agenda1">>}} :
    /\ call.op = "getCalendarWorkouts"
    /\ Return(call, response, response.data.userPlan)

getWorkoutDetails ==
  \E workoutId \in {"w1"} :
    Guarded("getWorkoutDetails", workoutId, [id |-> workoutId])

\* The continuation testing only for a missing or null list: the first
\* element of an empty list is undefined.
getWorkoutDetailsResumeNullOnly ==
  \E call \in inflight,
     response \in Failures
       \cup {Ok([workouts |-> w]) : w \in {None, Some(<<>>), Some(<<"W1", "W2">>)}} :
    /\ call.op = "getWorkoutDetails"
    /\ LET r == callAPI(call, response)
           missing == ~r.threw /\ r.data.workouts = None
       IN  /\ Settle(call, response, r, r.threw \/ missing,
                     IF missing
                       THEN [text |-> "Workout with ID ... not found",
                             detail |-> Some(call.args)]
                       ELSE r.error,
                     IF r.threw \/ missing THEN None
                     ELSE IF Len(Get(r.data.workouts)) = 0 THEN Some("undefined")
                     ELSE Some(Get(r.data.workouts)[1]))
           /\ UNCHANGED <<token, riderProfile, authHistory>>

\* data.workouts is None (missing or null) or Some(list).
getWorkoutDetailsResume ==
  \E call \in inflight,
     response \in Failures
       \cup {Ok([workouts |-> w]) : w \in {None, Some(<<>>), Some(<<"W1", "W2">>)}} :
    /\ call.op = "getWorkoutDetails"
    /\ LET r == callAPI(call, response)
           missing == ~r.threw /\ (r.data.workouts = None
                                    \/ Len(Get(r.data.workouts)) = 0)
       IN  /\ Settle(call, response, r, r.threw \/ missing,
                     IF missing
                       THEN [text |-> "Workout with ID ... not found",
                             detail |-> Some(call.args)]
                       ELSE r.error,
                     IF r.threw \/ missing THEN None
                     ELSE Some(Get(r.data.workouts)[1]))
           /\ UNCHANGED <<token, riderProfile, authHistory>>

\* The library items the server can return.
Item(id, name, workoutType, channel, category, level, duration, intensity, metrics) ==
  [id |-> id, name |-> name, workoutType |-> workoutType, channel |-> channel,
   category |-> category, level |-> level, duration |-> duration,
   intensity |-> intensity, metrics |-> metrics]

Ratings(nm, ac, map, ftp) ==
  (<<"n","m">> :> nm) @@ (<<"a","c">> :> ac) @@ (<<"m","a","p">> :> map)
    @@ (<<"f","t","p">> :> ftp)

Primers ==
  Item(1, <<"P","r","i","m","e","r","s">>, Some(Cycling), Some(<<"S","u","f">>),
       Some(<<"E","n","d">>), Some(<<"B","a","s","i","c">>), 2640,
       Some(<<"H","i","g","h">>),
       Some([tss |-> Some(42), ratings |-> Some(Ratings(1, 2, 3, 4))]))
Hammer ==
  Item(2, <<"H","a","m","m","e","r">>, Some(toLowerCase(Cycling)), Some(<<"S","u","f">>),
       Some(<<"S","p","e","e","d">>), Some(<<"A","d","v","a","n","c","e","d">>), 1800,
       Some(<<"L","o","w">>),
       Some([tss |-> Some(30), ratings |-> None]))
Jog ==
  Item(3, <<"J","o","g">>, Some(<<"R","u","n","n","i","n","g">>), Some(<<"N","o","V","i","d">>),
       Some(<<"E","n","d">>), None, 3600, None, None)
Rest ==
  Item(4, <<"h","a","m","m","e","r">>, Some(Cycling), Some(<<"N","o","V","i","d">>),
       Some(<<"E","n","d">>), Some(<<>>), 0, Some(<<"L","o","w">>),
       Some([tss |-> Some(0), ratings |-> Some(Ratings(0, 0, 0, 3))]))
Climb ==
  Item(5, <<"C","l","i","m","b">>, Some(Cycling), Some(<<"S","u","f">>),
       Some(<<"e","n","d">>), Some(<<"b","a","s","i","c">>), 1801,
       Some(<<"H","i","g","h">>),
       Some([tss |-> None, ratings |-> Some(Ratings(5, 4, 3, 5))]))

\* The catalogs and the filters of the library calls made through the client.
ClientCatalogs == {<<>>, <<Primers, Hammer>>}
ClientFilters == {Some([NoFilters EXCEPT !.maxDuration = Some(30)])}

getWorkoutLibrary ==
  \E filters \in ClientFilters :
    Guarded("getWorkoutLibrary", filters, None)

getWorkoutLibraryResume ==
  \E call \in inflight,
     response \in Failures \cup {Ok([content |-> c]) : c \in ClientCatalogs} :
    /\ call.op = "getWorkoutLibrary"
    /\ Return(call, response, LibraryQuery(response.data.content, call.args))

\* getCyclingWorkouts has no guard of its own: it calls getWorkoutLibrary with
\* its base filters, and that call's guard and fetch are its own.
getCyclingWorkouts ==
  \E filters \in ClientFilters :
    Guarded("getCyclingWorkouts", filters, None)

getCyclingWorkoutsResume ==
  \E call \in inflight,
     response \in Failures \cup {Ok([content |-> c]) : c \in ClientCatalogs} :
    /\ call.op = "getCyclingWorkouts"
    /\ Return(call, response, CyclingQuery(response.data.content, call.args))

TimeZones == {None, Some(<<>>), Some(<<"E","u","r","o","p","e","/","L","i","s","b","o","n">>)}
UTC == <<"U","T","C">>

\* UTC whatever the caller asked for.
tzAlwaysUTC(timeZone) == UTC

\* timeZone || 'UTC'
tzOrUTC(timeZone) == IF TruthyStr(timeZone) THEN Get(timeZone) ELSE UTC

MutationStatuses == {"Success", "Error"}

scheduleWorkout ==
  \E timeZone \in TimeZones :
    Guarded("scheduleWorkout", timeZone,
            [timeZone |-> tzOrUTC(timeZone), rank |-> 200])

scheduleWorkoutResume ==
  \E call \in inflight,
     response \in Failures
       \cup {Ok([status |-> st, message |-> "Content not found", agendaId |-> "agenda1"]) :
               st \in MutationStatuses} :
    /\ call.op = "scheduleWorkout"
    /\ LET r == callAPI(call, response)
           refused == ~r.threw /\ r.data.status # "Success"
       IN  /\ Settle(call, response, r, r.threw \/ refused,
                     IF refused
                       THEN [text |-> "Failed to schedule workout: ",
                             detail |-> Some(r.data.message)]
                       ELSE r.error,
                     IF r.threw \/ refused THEN None ELSE Some(r.data.agendaId))
           /\ UNCHANGED <<token, riderProfile, authHistory>>

rescheduleWorkout ==
  \E timeZone \in TimeZones :
    Guarded("rescheduleWorkout", timeZone,
            [timeZone |-> tzOrUTC(timeZone), rank |-> 200])

\* The tail without the status check.
MutationResumeUnchecked(call, response, text) ==
  LET r == callAPI(call, response)
  IN  /\ Settle(call, response, r, r.threw, r.error,
                IF r.threw THEN None ELSE Some("void"))
      /\ UNCHANGED <<token, riderProfile, authHistory>>

\* The tail dropping the session when the mutation is refused.
MutationResumeForgetting(call, response, text) ==
  LET r == callAPI(call, response)
      refused == ~r.threw /\ r.data.status # "Success"
  IN  /\ Settle(call, response, r, r.threw \/ refused,
                IF refused THEN [text |-> text, detail |-> None] ELSE r.error,
                IF r.threw \/ refused THEN None ELSE Some("void"))
      /\ token' = IF refused THEN None ELSE token
      /\ UNCHANGED <<riderProfile, authHistory>>

\* The tail shared by rescheduleWorkout and removeWorkout: throw unless the
\* mutation's status is 'Success'.
MutationResume(call, response, text) ==
  LET r == callAPI(call, response)
      refused == ~r.threw /\ r.data.status # "Success"
  IN  /\ Settle(call, response, r, r.threw \/ refused,
                IF refused THEN [text |-> text, detail |-> None] ELSE r.error,
                IF r.threw \/ refused THEN None ELSE Some("void"))
      /\ UNCHANGED <<token, riderProfile, authHistory>>

rescheduleWorkoutResume ==
  \E call \in inflight,
     response \in Failures \cup {Ok([status |-> st]) : st \in MutationStatuses} :
    /\ call.op = "rescheduleWorkout"
    /\ MutationResume(call, response, "Failed to reschedule workout")

removeWorkout ==
  Guarded("removeWorkout", None, None)

removeWorkoutResume ==
  \E call \in inflight,
     response \in Failures \cup {Ok([status |-> st]) : st \in MutationStatuses} :
    /\ call.op = "removeWorkout"
    /\ MutationResume(call, response, "Failed to remove workout")

\* Math.floor(lthr * pct / 100) for a whole lthr.
RoundPctFloor(lthr, pct) == (lthr * pct) \div 100

\* Math.round(lthr * pct / 100) for a whole lthr.
RoundPct(lthr, pct) == (lthr * pct + 50) \div 100

calculateHeartRateZones(lthr) ==
  <<[zone |-> 1, min |-> 0, max |-> Some(RoundPct(lthr, 68))],
    [zone |-> 2, min |-> RoundPct(lthr, 68) + 1, max |-> Some(RoundPct(lthr, 83))],
    [zone |-> 3, min |-> RoundPct(lthr, 83) + 1, max |-> Some(RoundPct(lthr, 94))],
    [zone |-> 4, min |-> RoundPct(lthr, 94) + 1, max |-> Some(RoundPct(lthr, 105))],
    [zone |-> 5, min |-> RoundPct(lthr, 105) + 1, max |-> None]>>

getEnhancedRiderProfile ==
  Guarded("getEnhancedRiderProfile", None, None)

\* data.mostRecentTest is None (null) or Some(test); the call returns null
\* (value Some(None)) unless the test's status is 'ok'.
getEnhancedRiderProfileResume ==
  \E call \in inflight,
     response \in Failures \cup {Ok([mostRecentTest |-> None])}
       \cup {Ok([mostRecentTest |-> Some([status |-> st,
                                          lactateThresholdHeartRate |-> 160])]) :
               st \in {"ok", "error"}} :
    /\ call.op = "getEnhancedRiderProfile"
    /\ LET testData == response.data.mostRecentTest
       IN  Return(call, response,
                  IF testData = None \/ Get(testData).status # "ok"
                    THEN None
                    ELSE Some([lactateThresholdHeartRate |->
                                 Get(testData).lactateThresholdHeartRate,
                               heartRateZones |-> calculateHeartRateZones(
                                 Get(testData).lactateThresholdHeartRate)]))

\* options?.page || 1 and options?.pageSize || 15
getFitnessTestHistory ==
  \E page \in {None, Some(2)} :
    Guarded("getFitnessTestHistory", page,
            [page |-> IF TruthyNum(page) THEN Get(page) ELSE 1, pageSize |-> 15])

getFitnessTestHistoryResume ==
  \E call \in inflight,
     response \in Failures \cup {Ok([activities |-> <<"test1">>, count |-> 1])} :
    /\ call.op = "getFitnessTestHistory"
    /\ Return(call, response,
              [activities |-> response.data.activities, total |-> response.data.count])

getFitnessTestDetails ==
  Guarded("getFitnessTestDetails", None, None)

getFitnessTestDetailsResume ==
  \E call \in inflight, response \in Failures \cup {Ok([activity |-> "test1"])} :
    /\ call.op = "getFitnessTestDetails"
    /\ Return(call, response, response.data.activity)

(***************************************************************************)
(* The client's specification: a new client, then any calls in any order.  *)
(***************************************************************************)
NoCall ==
  [op |-> "none", posts |-> 0, response |-> None,
   decoded |-> FALSE, threw |-> FALSE, error |-> NoError, value |-> None]

LibIdle ==
  /\ libContent = <<>>
  /\ libFilters = None
  /\ libResult = <<>>
  /\ libOp = "idle"

NormIdle ==
  /\ raw = None
  /\ normalized = None
  /\ normOp = "idle"

\* No server shell around the client.
ShellIdle ==
  /\ isAuthenticated = FALSE
  /\ startup = "none"

Init ==
  /\ token = None
  /\ riderProfile = None
  /\ inflight = {}
  /\ last = NoCall
  /\ authHistory = "none"
  /\ LibIdle
  /\ NormIdle
  /\ ShellIdle

Next ==
  \/ authenticate
  \/ authenticateResume
  \/ getRiderProfile
  \/ getCalendarWorkouts
  \/ getCalendarWorkoutsResume
  \/ getWorkoutDetails
  \/ getWorkoutDetailsResume
  \/ getWorkoutLibrary
  \/ getWorkoutLibraryResume
  \/ getCyclingWorkouts
  \/ getCyclingWorkoutsResume
  \/ scheduleWorkout
  \/ scheduleWorkoutResume
  \/ rescheduleWorkout
  \/ rescheduleWorkoutResume
  \/ removeWorkout
  \/ removeWorkoutResume
  \/ getEnhancedRiderProfile
  \/ getEnhancedRiderProfileResume
  \/ getFitnessTestHistory
  \/ getFitnessTestHistoryResume
  \/ getFitnessTestDetails
  \/ getFitnessTestDetailsResume

Spec == Init /\ [][Next]_vars

(***************************************************************************)
(* The library queries as functions of their inputs: the catalog the one   *)
(* fetch returns and the caller's filters are drawn from bounded sets, and *)
(* one step applies getWorkoutLibrary's or getCyclingWorkouts' pipeline.   *)
(***************************************************************************)
\* The longest catalog, and the most filter fields a caller supplies.
MaxCatalog == 2
MaxSupplied == 2

LibItems == {Primers, Hammer, Jog, Rest, Climb}

RECURSIVE SeqsUpTo(_, _)
\* The catalogs of at most n items of S, no item twice (ids are unique).
SeqsUpTo(S, n) ==
  IF n = 0 THEN {<<>>}
  ELSE LET shorter == SeqsUpTo(S, n - 1)
       IN  shorter \cup UNION {{Append(q, x) : x \in S \ Range(q)} : q \in shorter}

\* The values a caller may give each filter field.
FieldValues ==
  {<<"sport", t>> : t \in {<<>>, Cycling}}
  \cup {<<"channel", t>> : t \in {<<>>, <<"s","u","f">>}}
  \cup {<<"level", t>> : t \in {<<>>, <<"b","a","s","i","c">>}}
  \cup {<<"category", t>> : t \in {<<>>, <<"e","n","d">>}}
  \cup {<<"intensity", t>> : t \in {<<"H","i","g","h">>}}
  \cup {<<"fourDpFocus", t>> : t \in {<<"F","T","P">>, <<"N","M">>}}
  \cup {<<"minDuration", n>> : n \in {30}}
  \cup {<<"maxDuration", n>> : n \in {0, 30}}
  \cup {<<"minTss", n>> : n \in {40}}
  \cup {<<"maxTss", n>> : n \in {0, 40}}
  \cup {<<"sortBy", e>> : e \in {"name", "duration", "tss", "level"}}
  \cup {<<"sortDirection", e>> : e \in {"desc"}}
  \cup {<<"limit", n>> : n \in {0, 1}}

RECURSIVE FiltersUpTo(_)
\* The filter records with at most n fields supplied.
FiltersUpTo(n) ==
  IF n = 0 THEN {NoFilters}
  ELSE LET fewer == FiltersUpTo(n - 1)
       IN  fewer \cup {[f EXCEPT ![kv[1]] = Some(kv[2])] : f \in fewer, kv \in FieldValues}

LibInit ==
  /\ token = None
  /\ riderProfile = None
  /\ inflight = {}
  /\ last = NoCall
  /\ authHistory = "none"
  /\ libContent \in SeqsUpTo(LibItems, MaxCatalog)
  /\ libFilters \in {None} \cup {Some(f) : f \in FiltersUpTo(MaxSupplied)}
  /\ libResult = <<>>
  /\ libOp = "idle"
  /\ NormIdle
  /\ ShellIdle

LibGetWorkoutLibrary ==
  /\ libOp = "idle"
  /\ libOp' = "getWorkoutLibrary"
  /\ libResult' = LibraryQuery(libContent, libFilters)
  /\ UNCHANGED <<libContent, libFilters>>
  /\ UNCHANGED besideLibrary

LibGetCyclingWorkouts ==
  /\ libOp = "idle"
  /\ libOp' = "getCyclingWorkouts"
  /\ libResult' = CyclingQuery(libContent, libFilters)
  /\ UNCHANGED <<libContent, libFilters>>
  /\ UNCHANGED besideLibrary

LibNext ==
  \/ LibGetWorkoutLibrary
  \/ LibGetCyclingWorkouts

LibSpec == LibInit /\ [][LibNext]_vars

(***************************************************************************)
(* The tool layer: the handlers that turn a tool call's arguments into a   *)
(* library query and window its result.  In ToolSpec libFilters holds the  *)
(* tool call's arguments and libOp the handler that answered.              *)
(***************************************************************************)
\* The arguments of get_workouts and get_cycling_workouts, all optional.
NoArgs ==
  [sport |-> None, channel |-> None, category |-> None, intensity |-> None,
   four_dp_focus |-> None, min_duration |-> None, max_duration |-> None,
   min_tss |-> None, max_tss |-> None, sort_by |-> None, sort_direction |-> None,
   limit |-> None]

\* if (args.x) options.x = args.x
IfTruthyStr(o) == IF TruthyStr(o) THEN o ELSE None

\* args.min_duration * 60 (when it is a number)
toolSeconds(o) == IF o = None THEN None ELSE Some(Get(o) * 60)

\* workouts.slice(0, args.limit) when the limit is a number
sliceIfLimit(workouts, limit) ==
  IF limit = None THEN workouts ELSE slice0(workouts, Get(limit))

\* registerWorkoutTools, get_workouts: execute, after the catalog is fetched.
get_workouts_execute(content, args) ==
  LET options == [NoFilters EXCEPT
                    !.sport = IfTruthyStr(args.sport),
                    !.minDuration = toolSeconds(args.min_duration),
                    !.maxDuration = toolSeconds(args.max_duration),
                    !.minTss = args.min_tss,
                    !.maxTss = args.max_tss,
                    !.channel = IfTruthyStr(args.channel),
                    !.sortBy = args.sort_by,
                    !.sortDirection = args.sort_direction]
  IN  sliceIfLimit(LibraryQuery(content, Some(options)), args.limit)

\* registerWorkoutTools, get_cycling_workouts: execute.
get_cycling_workouts_execute(content, args) ==
  LET options == [NoFilters EXCEPT
                    !.minDuration = toolSeconds(args.min_duration),
                    !.maxDuration = toolSeconds(args.max_duration),
                    !.minTss = args.min_tss,
                    !.maxTss = args.max_tss,
                    !.channel = IfTruthyStr(args.channel),
                    !.category = IfTruthyStr(args.category),
                    !.fourDpFocus = IfTruthyStr(args.four_dp_focus),
                    !.intensity = IfTruthyStr(args.intensity),
                    !.sortBy = args.sort_by,
                    !.sortDirection = args.sort_direction,
                    !.limit = args.limit]
  IN  sliceIfLimit(CyclingQuery(content, Some(options)), args.limit)

\* The CallTool handler's case 'get_workouts' (the earlier server shell).
CallTool_get_workouts(content, args) ==
  LET filters == [NoFilters EXCEPT
                    !.sport = args.sport,
                    !.minDuration = args.min_duration,
                    !.maxDuration = args.max_duration,
                    !.minTss = args.min_tss,
                    !.maxTss = args.max_tss,
                    !.sortBy = args.sort_by,
                    !.sortDirection = args.sort_direction]
      limit == IF args.limit = None THEN DefaultLimit ELSE Get(args.limit)
  IN  slice0(LibraryQuery(content, Some(filters)), limit)

\* The CallTool handler's case 'get_cycling_workouts'.
CallTool_get_cycling_workouts(content, args) ==
  LET filters == [NoFilters EXCEPT
                    !.channel = args.channel,
                    !.category = args.category,
                    !.fourDpFocus = args.four_dp_focus,
                    !.minDuration = args.min_duration,
                    !.maxDuration = args.max_duration,
                    !.minTss = args.min_tss,
                    !.maxTss = args.max_tss,
                    !.intensity = args.intensity,
                    !.sortBy = args.sort_by,
                    !.sortDirection = args.sort_direction,
                    !.limit = args.limit]
  IN  CyclingQuery(content, Some(filters))

\* A catalog one item longer than the default limit.
BigItem(i) ==
  Item(100 + i, <<"w">>, Some(Cycling), Some(<<"S","u","f">>), Some(<<"E","n","d">>),
       Some(<<"B","a","s","i","c">>), 60 * i, Some(<<"L","o","w">>), None)
BigCatalog == [i \in 1..(DefaultLimit + 1) |-> BigItem(i)]

\* The values a tool call may give each argument (as the schemas admit).
ArgValues ==
  {<<"sport", Cycling>>, <<"channel", <<"s","u","f">>>>,
   <<"category", <<"e","n","d">>>>, <<"four_dp_focus", <<"F","T","P">>>>,
   <<"sort_by", "duration">>, <<"sort_direction", "desc">>}
  \cup {<<"min_duration", n>> : n \in {0, 30}}
  \cup {<<"max_duration", n>> : n \in {0, 30}}
  \cup {<<"max_tss", n>> : n \in {0, 40}}
  \cup {<<"limit", n>> : n \in {0, 1}}

RECURSIVE ArgsUpTo(_)
\* The argument records with at most n arguments supplied.
ArgsUpTo(n) ==
  IF n = 0 THEN {NoArgs}
  ELSE LET fewer == ArgsUpTo(n - 1)
       IN  fewer \cup {[a EXCEPT ![kv[1]] = Some(kv[2])] : a \in fewer, kv \in ArgValues}

ToolInit ==
  /\ token = None
  /\ riderProfile = None
  /\ inflight = {}
  /\ last = NoCall
  /\ authHistory = "none"
  /\ libContent \in SeqsUpTo(LibItems, MaxCatalog) \cup {BigCatalog}
  /\ libFilters \in ArgsUpTo(MaxSupplied)
  /\ libResult = <<>>
  /\ libOp = "idle"
  /\ NormIdle
  /\ ShellIdle

\* One tool call answered by handler op with result.
ToolAnswer(op, result) ==
  /\ libOp = "idle"
  /\ libOp' = op
  /\ libResult' = result
  /\ UNCHANGED <<libContent, libFilters>>
  /\ UNCHANGED besideLibrary

ToolGetWorkouts ==
  ToolAnswer("get_workouts", get_workouts_execute(libContent, libFilters))

ToolGetCyclingWorkouts ==
  ToolAnswer("get_cycling_workouts", get_cycling_workouts_execute(libContent, libFilters))

CallToolGetWorkouts ==
  ToolAnswer("CallTool get_workouts", CallTool_get_workouts(libContent, libFilters))

CallToolGetCyclingWorkouts ==
  ToolAnswer("CallTool get_cycling_workouts",
             CallTool_get_cycling_workouts(libContent, libFilters))

ToolNext ==
  \/ ToolGetWorkouts
  \/ ToolGetCyclingWorkouts
  \/ CallToolGetWorkouts
  \/ CallToolGetCyclingWorkouts

ToolSpec == ToolInit /\ [][ToolNext]_vars

(***************************************************************************)
(* Properties of the session and of the transport (Spec).                  *)
(***************************************************************************)
\* The calls that went in flight in this step.
Started == inflight' \ inflight

\* A guarded call failed in its guard in this step.
GuardFailed == last' # last /\ last'.error = NotAuthenticatedError

\* A guarded call or getRiderProfile read the session in this step.
ReadSession ==
  \/ \E c \in Started : c.op # "authenticate"
  \/ last' # last /\ last'.response = None

\* C1: a guarded operation fails with the not-authenticated error if and
\* only if no authenticate call has succeeded before it: it never gets past
\* the guard before the first success, and never fails in it after.
C1_NotAuthenticatedIffNoSuccess ==
  [][/\ \A c \in Started : c.op # "authenticate" => authHistory = "succeeded"
     /\ GuardFailed => authHistory # "succeeded"]_vars

\* C2: in every reachable state the token is set if and only if the
\* riderProfile is set.
C2_TokenIffProfile ==
  (token # None) <=> (riderProfile # None)

\* C3: a guarded operation that starts before any authenticate call has
\* completed fails in the guard, and no operation starts on a session whose
\* token is assigned while its profile is not.
C3_NoPartialSession ==
  [][/\ \A c \in Started : c.op # "authenticate" => authHistory # "none"
     /\ ReadSession /\ token # None => riderProfile # None]_vars

\* C4: once an authenticate call has succeeded, token and riderProfile never
\* change again, whatever calls follow.
C4_WrittenOnce ==
  [][authHistory = "succeeded" => token' = token /\ riderProfile' = riderProfile]_vars

\* The login answer the last settled authenticate call decoded, if any.
LastLogin ==
  IF last.op = "authenticate" /\ last.response # None /\ Get(last.response).ok
    THEN Some(Get(last.response).data)
    ELSE None

\* C5: authenticate fails with the authentication error carrying the upstream
\* message whenever the login status is not 'Success', and ends normally
\* (with the session stored) only when it is.
C5_StatusDecides ==
  LastLogin # None =>
    /\ Get(LastLogin).status # "Success" =>
         /\ last.threw
         /\ last.error = [text |-> "Authentication failed: ",
                          detail |-> Some(Get(LastLogin).message)]
    /\ ~last.threw => Get(LastLogin).status = "Success"

\* All four power values of a login answer's profile are numbers.
NumericProfile(login) ==
  /\ login.user # None
  /\ Get(login.user).riderProfile # None
  /\ LET p == Get(Get(login.user).riderProfile)
     IN  p.nm # None /\ p.ac # None /\ p.map # None /\ p.ftp # None

\* C6: when a power value of the returned profile is missing or not a number
\* the call fails, and a session that was empty stays empty.
C6_NumericOrFails ==
  LastLogin # None /\ ~NumericProfile(Get(LastLogin)) =>
    /\ last.threw
    /\ authHistory # "succeeded" => token = None /\ riderProfile = None

\* C7: every call sends at most one POST: exactly one when it passes the
\* guard (authenticate: always), none when the guard fails, and no second one
\* after a transport failure or a refusal.
C7_AtMostOnePost ==
  /\ \A c \in inflight : c.posts = 1
  /\ last.posts <= 1
  /\ last.op = "authenticate" => last.posts = 1
  /\ last.error = NotAuthenticatedError => last.posts = 0
  /\ last.response # None => last.posts = 1

\* A getCyclingWorkouts call has failed on a non-2xx answer.
C7_Witness ==
  /\ last.op = "getCyclingWorkouts"
  /\ last.response # None /\ ~Get(last.response).ok
  /\ last.threw /\ last.posts = 1

\* C8: a non-2xx answer makes the call fail with the transport error that
\* carries the HTTP status text, and the body is not decoded.
C8_TransportError ==
  last.response # None /\ ~Get(last.response).ok =>
    /\ last.threw
    /\ last.error = [text |-> "API request failed: ",
                     detail |-> Some(Get(last.response).statusText)]
    /\ ~last.decoded
    /\ last.value = None

\* A scheduleWorkout call got the answer 'Bad Gateway'.
C8_Witness ==
  /\ last.op = "scheduleWorkout"
  /\ last.response # None
  /\ ~Get(last.response).ok /\ Get(last.response).statusText = "Bad Gateway"
  /\ last.threw

\* The decoded answer of the call that settled last, if it was a mutation.
LastMutation ==
  IF last.op \in {"scheduleWorkout", "rescheduleWorkout", "removeWorkout"}
       /\ last.response # None /\ Get(last.response).ok
    THEN Some(Get(last.response).data) ELSE None

\* C19: scheduleWorkout returns the answer's agendaId if and only if the
\* answer's status is 'Success', and otherwise fails with the schedule error
\* carrying the upstream message and returns nothing; rescheduleWorkout and
\* removeWorkout return normally if and only if the status is 'Success'.
C19_StatusDecidesMutation ==
  LastMutation # None =>
    LET answer == Get(LastMutation)
    IN  /\ last.threw <=> answer.status # "Success"
        /\ last.op = "scheduleWorkout" =>
             IF answer.status = "Success"
               THEN last.value = Some(answer.agendaId)
               ELSE /\ last.value = None
                    /\ last.error = [text |-> "Failed to schedule workout: ",
                                     detail |-> Some(answer.message)]

\* A rescheduleWorkout call was answered with a status other than 'Success'
\* and threw.
C19_Witness ==
  /\ last.op = "rescheduleWorkout"
  /\ LastMutation # None /\ Get(LastMutation).status = "Error"
  /\ last.threw

\* The scheduleWorkout and rescheduleWorkout calls awaiting their answer.
Scheduling == {c \in inflight : c.op \in {"scheduleWorkout", "rescheduleWorkout"}}

\* C20 as stated: with no timeZone supplied the mutation is sent with
\* timeZone = "UTC"; a supplied timeZone is sent unchanged.
C20_TimeZoneSent ==
  \A c \in Scheduling :
    c.variables.timeZone = IF c.args = None THEN UTC ELSE Get(c.args)

\* C20 amended: with no timeZone, or an empty one, the mutation is sent with
\* timeZone = "UTC"; a non-empty timeZone is sent unchanged.
C20_TimeZoneSentNonEmpty ==
  \A c \in Scheduling :
    c.variables.timeZone = IF c.args \in {None, Some(<<>>)} THEN UTC ELSE Get(c.args)

\* scheduleWorkout without a timeZone and rescheduleWorkout with one are both
\* awaiting their answer.
C20_Witness ==
  /\ \E c \in Scheduling :
       c.op = "scheduleWorkout" /\ c.args = None /\ c.variables.timeZone = UTC
  /\ \E c \in Scheduling :
       /\ c.op = "rescheduleWorkout"
       /\ c.args = Some(<<"E","u","r","o","p","e","/","L","i","s","b","o","n">>)
       /\ c.variables.timeZone = Get(c.args)

(***************************************************************************)
(* Properties of the library queries (LibSpec).                            *)
(***************************************************************************)
\* The caller's filters as a record (all fields None when none were passed).
Supplied == IF libFilters = None THEN NoFilters ELSE Get(libFilters)

\* How often x occurs in s.
Count(s, x) == Cardinality({i \in 1..Len(s) : s[i] = x})

\* a equals b, ignoring case; a missing value equals nothing.
SameIgnoringCase(a, b) ==
  a # None /\ b # None /\ toLowerCase(Get(a)) = toLowerCase(Get(b))

\* item is within the duration and TSS bounds of f that are supplied.
WithinBounds(item, f) ==
  /\ f.minDuration # None => item.duration >= 60 * Get(f.minDuration)
  /\ f.maxDuration # None => item.duration <= 60 * Get(f.maxDuration)
  /\ f.minTss # None => TssOf(item) >= Get(f.minTss)
  /\ f.maxTss # None => TssOf(item) <= Get(f.maxTss)

\* The result holds exactly the catalog items for which Qualifies holds.
ExactlyThose(Qualifies(_)) ==
  \A item \in Range(libContent) \cup Range(libResult) :
    Count(libResult, item) = IF Qualifies(item) THEN Count(libContent, item) ELSE 0

\* C9 as stated: getWorkoutLibrary returns exactly the items that satisfy
\* every supplied predicate (sport, level, duration and TSS bounds); only an
\* omitted filter imposes no constraint.
C9_ExactlyTheQualifying ==
  libOp = "getWorkoutLibrary" /\ Supplied.channel = None =>
    LET Qualifies(item) ==
          /\ Supplied.sport # None => SameIgnoringCase(item.workoutType, Supplied.sport)
          /\ Supplied.level # None => SameIgnoringCase(item.level, Supplied.level)
          /\ WithinBounds(item, Supplied)
    IN  ExactlyThose(Qualifies)

\* C9 amended: as C9, except that a sport or level given as the empty string
\* imposes no constraint, like an omitted one.
C9_ExactlyTheQualifyingNonEmpty ==
  libOp = "getWorkoutLibrary" /\ Supplied.channel = None =>
    LET Qualifies(item) ==
          /\ Supplied.sport \notin {None, Some(<<>>)} =>
               SameIgnoringCase(item.workoutType, Supplied.sport)
          /\ Supplied.level \notin {None, Some(<<>>)} =>
               SameIgnoringCase(item.level, Supplied.level)
          /\ WithinBounds(item, Supplied)
    IN  ExactlyThose(Qualifies)

\* getWorkoutLibrary, given a sport and a duration bound, kept one item of a
\* two-item catalog and dropped the other.
C9_Witness ==
  /\ libOp = "getWorkoutLibrary"
  /\ Supplied.sport = Some(Cycling) /\ Supplied.maxDuration = Some(30)
  /\ Len(libContent) = 2 /\ Len(libResult) = 1

\* C10: every item getCyclingWorkouts returns is within each duration and TSS
\* bound the caller supplied, 0 included.
C10_BoundsConstrain ==
  libOp = "getCyclingWorkouts" =>
    \A i \in 1..Len(libResult) : WithinBounds(libResult[i], Supplied)

\* The channel of item contains the text ignoring case; no channel, no match.
ContainsIgnoringCase(channel, text) ==
  channel # None /\ includes(toLowerCase(Get(channel)), toLowerCase(Get(text)))

C12_ChannelExact ==
  libOp = "getWorkoutLibrary" /\ Supplied.channel # None =>
    \A i \in 1..Len(libResult) : libResult[i].channel = Supplied.channel

\* C12 amended: with a non-empty channel C requested, every item
\* getWorkoutLibrary returns has a channel equal to C ignoring case.
C12_ChannelIgnoringCase ==
  libOp = "getWorkoutLibrary" /\ Supplied.channel \notin {None, Some(<<>>)} =>
    \A i \in 1..Len(libResult) :
      SameIgnoringCase(libResult[i].channel, Supplied.channel)

\* getWorkoutLibrary, asked for channel "suf", returned the "Suf" item of a
\* catalog that also holds an item of another channel.
C12_Witness ==
  /\ libOp = "getWorkoutLibrary"
  /\ Supplied.channel = Some(<<"s","u","f">>)
  /\ Len(libContent) = 2 /\ Len(libResult) = 1
  /\ libResult[1].channel = Some(<<"S","u","f">>)

\* The limit getCyclingWorkouts applies: the caller's, or the default.
LimitOf(f) == IF f.limit = None THEN DefaultLimit ELSE Get(f.limit)

Min(a, b) == IF a <= b THEN a ELSE b

\* The rating of item for the energy system is at least 4.
HighRating(item, focus) ==
  LET rating == RatingOf(item, toLowerCase(focus))
  IN  rating # None /\ Get(rating) >= 4

\* item passes the filters of f other than the 4DP focus.
PassesOthers(item, f) ==
  /\ SameIgnoringCase(item.workoutType, Some(Cycling))
  /\ f.channel # None => ContainsIgnoringCase(item.channel, f.channel)
  /\ f.category \notin {None, Some(<<>>)} => SameIgnoringCase(item.category, f.category)
  /\ f.intensity # None => SameIgnoringCase(item.intensity, f.intensity)
  /\ WithinBounds(item, f)

SortKey == IF Supplied.sortBy = None THEN "name" ELSE Get(Supplied.sortBy)
Ascending == Supplied.sortDirection \in {None, Some("asc")}

\* Basic = 1, Intermediate = 2, Advanced = 3, anything else or nothing = 0.
LevelOrdinal(item) ==
  CASE SameIgnoringCase(item.level, Some(<<"b","a","s","i","c">>)) -> 1
    [] SameIgnoringCase(item.level,
                        Some(<<"i","n","t","e","r","m","e","d","i","a","t","e">>)) -> 2
    [] SameIgnoringCase(item.level, Some(<<"a","d","v","a","n","c","e","d">>)) -> 3
    [] OTHER -> 0

\* a's key is at most b's, and a's key equals b's, under the key in force.
KeyAtMost(a, b) ==
  CASE SortKey = "duration" -> a.duration <= b.duration
    [] SortKey = "tss"      -> TssOf(a) <= TssOf(b)
    [] SortKey = "level"    -> LevelOrdinal(a) <= LevelOrdinal(b)
    [] OTHER                -> localeCompare(a.name, b.name) <= 0
KeyEqual(a, b) == KeyAtMost(a, b) /\ KeyAtMost(b, a)

\* The position of item in the catalog.
IndexIn(s, item) == CHOOSE i \in 1..Len(s) : s[i] = item

\* C14: what getWorkoutLibrary returns is a permutation of the filtered items
\* and is monotone in the sort key over its whole length: non-decreasing for
\* asc (the default, name being the default key), non-increasing for desc.
C14_SortedPermutation ==
  libOp = "getWorkoutLibrary" =>
    LET filtered == LibraryFilter(libContent, libFilters)
    IN  /\ Len(libResult) = Len(filtered)
        /\ \A item \in Range(filtered) \cup Range(libResult) :
             Count(libResult, item) = Count(filtered, item)
        /\ \A i, j \in 1..Len(libResult) :
             i < j => IF Ascending THEN KeyAtMost(libResult[i], libResult[j])
                                   ELSE KeyAtMost(libResult[j], libResult[i])

\* getWorkoutLibrary, asked for duration descending, put the longer item of
\* the catalog first although it came second.
C14_Witness ==
  /\ libOp = "getWorkoutLibrary"
  /\ Supplied.sortBy = Some("duration") /\ Supplied.sortDirection = Some("desc")
  /\ libContent = <<Hammer, Primers>>
  /\ libResult = <<Primers, Hammer>>

\* C15: two returned items with equal sort keys keep the relative order they
\* had in the catalog, in both directions.
C15_Stable ==
  libOp = "getWorkoutLibrary" =>
    \A i, j \in 1..Len(libResult) :
      i < j /\ KeyEqual(libResult[i], libResult[j]) =>
        IndexIn(libContent, libResult[i]) < IndexIn(libContent, libResult[j])

\* getWorkoutLibrary, sorting by level descending, returned two items of the
\* same level in catalog order.
C15_Witness ==
  /\ libOp = "getWorkoutLibrary"
  /\ Supplied.sortBy = Some("level") /\ Supplied.sortDirection = Some("desc")
  /\ libContent = <<Primers, Climb>>
  /\ libResult = <<Primers, Climb>>

\* The first n items of s.
FirstItems(s, n) == SubSeq(s, 1, Min(n, Len(s)))

\* C16: getCyclingWorkouts returns exactly the first L items (L the limit, 50
\* when omitted) of the catalog filtered by every supplied filter and then
\* stable-sorted.
C16_FilterSortLimit ==
  libOp = "getCyclingWorkouts" =>
    LET Wanted(item) ==
          /\ PassesOthers(item, Supplied)
          /\ Supplied.fourDpFocus # None => HighRating(item, Get(Supplied.fourDpFocus))
        survivors == SelectSeq(libContent, Wanted)
        sorted == StableSort(survivors, SortKey, IF Ascending THEN 1 ELSE -1)
    IN  libResult = FirstItems(sorted, LimitOf(Supplied))

(***************************************************************************)
(* Properties of the tool layer (ToolSpec).                                *)
(***************************************************************************)
ToolOps == {"get_workouts", "get_cycling_workouts",
            "CallTool get_workouts", "CallTool get_cycling_workouts"}

\* item is within the duration bounds the tool call gave, in minutes.
WithinMinutes(item, args) ==
  /\ args.min_duration # None => item.duration >= 60 * Get(args.min_duration)
  /\ args.max_duration # None => item.duration <= 60 * Get(args.max_duration)

\* The tool call supplied duration bounds and nothing else.
OnlyDurations(args) ==
  [args EXCEPT !.min_duration = None, !.max_duration = None] = NoArgs

\* C17: a duration bound of M minutes (M positive) given to get_workouts or
\* get_cycling_workouts is converted to seconds exactly once: every returned
\* item has a duration within 60*M seconds, and when no other argument is
\* given every item (every cycling item, for the cycling tool) of a catalog
\* within the default limit that is within the bound is returned.
C17_MinutesOnce ==
  /\ libOp \in ToolOps /\ libContent # BigCatalog
  /\ Some(0) \notin {libFilters.min_duration, libFilters.max_duration}
  =>
    /\ \A i \in 1..Len(libResult) : WithinMinutes(libResult[i], libFilters)
    /\ OnlyDurations(libFilters) =>
         \A item \in Range(libContent) :
           /\ WithinMinutes(item, libFilters)
           /\ libOp \in {"get_cycling_workouts", "CallTool get_cycling_workouts"}
                => SameIgnoringCase(item.workoutType, Some(Cycling))
           => item \in Range(libResult)

\* C18: each tool returns at most `limit` workouts, and at most 50 when the
\* call gives no limit.
C18_AtMostLimit ==
  libOp \in ToolOps =>
    Len(libResult) <= IF libFilters.limit = None THEN 50 ELSE Get(libFilters.limit)

(***************************************************************************)
(* Claims about what the client's operations return.                       *)
(***************************************************************************)
\* The list of workouts in the answer that settled last.
LastWorkouts == Get(last.response).data.workouts

\* C21: getWorkoutDetails fails with the not-found error whenever the decoded
\* answer carries no workout (workouts missing, null or empty), and otherwise
\* returns the first workout of the list; it never returns undefined or null.
C21_NotFoundOrFirst ==
  last.op = "getWorkoutDetails" /\ last.decoded =>
    IF LastWorkouts = None \/ Len(Get(LastWorkouts)) = 0
      THEN /\ last.threw
           /\ last.error.text = "Workout with ID ... not found"
           /\ last.value = None
      ELSE /\ ~last.threw
           /\ last.value = Some(Get(LastWorkouts)[1])

C21_Witness ==
  /\ last.op = "getWorkoutDetails" /\ last.decoded
  /\ LastWorkouts = Some(<<>>)
  /\ last.threw

\* C22: every operation either returns its typed result or raises an error:
\* in a session opened by a successful login, a call that was answered and
\* did not throw returns a value, and that value is never the null sentinel
\* (getEnhancedRiderProfile being the operation whose return type admits one).
C22_NoSentinel ==
  authHistory = "succeeded" /\ last.response # None /\ ~last.threw =>
    /\ last.value # None
    /\ last.op = "getEnhancedRiderProfile" => Get(last.value) # None

(***************************************************************************)
(* Claims about what changes the session.                                  *)
(***************************************************************************)
\* The calls that settle in this step.
Settled == inflight \ inflight'

\* C27: an authenticate call that fails (a non-2xx answer, or a login answer
\* that is rejected) leaves token and riderProfile exactly as they were
\* before the call settled.
C27_FailedLoginKeepsSession ==
  [][(\E c \in Settled : c.op = "authenticate") /\ last'.threw
       => token' = token /\ riderProfile' = riderProfile]_vars

\* C28: no operation other than authenticate changes the session, and
\* rescheduleWorkout and removeWorkout keep no record of earlier calls: on an
\* open session they always send their one POST, and they fail exactly when
\* the answer to that POST is not 2xx or its status is not 'Success'.
C28_OnlyAuthenticateWrites ==
  [][/\ token' # token \/ riderProfile' # riderProfile
          => \E c \in Settled : c.op = "authenticate"
     /\ \A c \in Started : c.posts = 1
     /\ \A c \in Settled :
          c.op \in {"rescheduleWorkout", "removeWorkout"} =>
            /\ last'.posts = 1
            /\ last'.threw <=> \/ ~Get(last'.response).ok
                               \/ Get(last'.response).data.status # "Success"]_vars

C28_Witness ==
  /\ last.op = "removeWorkout" /\ last.response # None /\ last.threw
  /\ token # None /\ riderProfile # None
  /\ \E c \in inflight : c.op = "rescheduleWorkout"

(***************************************************************************)
(* The response normalizer: the zod schemas of schemas.ts as functions     *)
(* from a raw JSON value to the outcome of parsing it.                     *)
(*                                                                         *)
(* A JSON field is undefined (absent), null, or carries a value.           *)
(***************************************************************************)
Undefined == [kind |-> "undefined"]
Null == [kind |-> "null"]
Val(v) == [kind |-> "value", value |-> v]
JsOf(S) == {Undefined, Null} \cup {Val(v) : v \in S}

\* The outcome of a parse: the output, or a rejection (a ZodError).
Accept(out) == [ok |-> TRUE, out |-> out]
Reject == [ok |-> FALSE, out |-> Undefined]

\* z.string(), z.number(), z.array(...) on a field that, when it carries a
\* value, carries one of the right type: undefined and null are rejected.
zTyped(x) == IF x.kind = "value" THEN Accept(x) ELSE Reject

\* schema.optional() and schema.nullable(), inner being the wrapped schema's
\* outcome on x.
optional(x, inner) == IF x.kind = "undefined" THEN Accept(x) ELSE inner
nullable(x, inner) == IF x.kind = "null" THEN Accept(x) ELSE inner

\* schema.transform(f), mapped being f of the schema's output: f runs only on
\* an accepted value.
transform(result, mapped) == IF result.ok THEN Accept(mapped) ELSE result

\* val => val || null
OrNull(val) ==
  IF val.kind = "value" /\ val.value # "" THEN val ELSE Null

\* val => val || ''
OrEmptyString(val) ==
  IF val.kind = "value" /\ val.value # "" THEN val ELSE Val("")

\* m.tss || 0
OrZero(val) ==
  IF val.kind = "value" /\ val.value # 0 THEN val ELSE Val(0)

ZeroRatings == [nm |-> 0, ac |-> 0, map |-> 0, ftp |-> 0]

\* An object of four numbers.
RatingsSchema(x) == zTyped(x)

MetricsSchema(x) ==
  IF x.kind # "value" THEN Reject
  ELSE LET m == x.value
           intensityFactor == optional(m.intensityFactor, zTyped(m.intensityFactor))
           tss == optional(m.tss, zTyped(m.tss))
           ratings == optional(m.ratings, RatingsSchema(m.ratings))
       IN  IF intensityFactor.ok /\ tss.ok /\ ratings.ok
             THEN Accept(Val([intensityFactor |-> intensityFactor.out,
                              tss |-> tss.out, ratings |-> ratings.out]))
             ELSE Reject

\* The transform on WorkoutDetailsSchema.metrics.
metricsDefaults(m) ==
  Val([intensityFactor |-> OrZero(m.value.intensityFactor),
       tss |-> OrZero(m.value.tss),
       ratings |-> IF m.value.ratings.kind = "value"
                     THEN m.value.ratings ELSE Val(ZeroRatings)])

\* The fields of a workout's details that may be absent or null upstream; the
\* other fields are taken to be as the schema requires them.
WorkoutDetailsSchema(x) ==
  LET equipment == optional(x.equipment, nullable(x.equipment, zTyped(x.equipment)))
      descriptions == optional(x.descriptions, zTyped(x.descriptions))
      levelString == optional(x.level, nullable(x.level, zTyped(x.level)))
      level == transform(levelString, OrEmptyString(levelString.out))
      triggersString == optional(x.triggers, zTyped(x.triggers))
      triggers == transform(triggersString, OrEmptyString(triggersString.out))
      featuredRaces == optional(x.featuredRaces,
                                nullable(x.featuredRaces, zTyped(x.featuredRaces)))
      metricsObject == MetricsSchema(x.metrics)
      metrics == transform(metricsObject, metricsDefaults(metricsObject.out))
      tags == optional(x.tags, zTyped(x.tags))
  IN  IF /\ equipment.ok /\ descriptions.ok /\ level.ok /\ triggers.ok
         /\ featuredRaces.ok /\ metrics.ok /\ tags.ok
        THEN Accept([equipment |-> equipment.out, descriptions |-> descriptions.out,
                     level |-> level.out, triggers |-> triggers.out,
                     featuredRaces |-> featuredRaces.out, metrics |-> metrics.out,
                     tags |-> tags.out])
        ELSE Reject

LibraryContentSchema(x) ==
  LET level == zTyped(x.level)
      tags == optional(x.tags, zTyped(x.tags))
      descriptions == optional(x.descriptions, zTyped(x.descriptions))
      metrics == optional(x.metrics, MetricsSchema(x.metrics))
  IN  IF level.ok /\ tags.ok /\ descriptions.ok /\ metrics.ok
        THEN Accept([level |-> level.out, tags |-> tags.out,
                     descriptions |-> descriptions.out, metrics |-> metrics.out])
        ELSE Reject

\* schema.safeParse(record)
safeParse(schema, record) ==
  IF schema = "WorkoutDetailsSchema"
    THEN WorkoutDetailsSchema(record)
    ELSE LibraryContentSchema(record)

(***************************************************************************)
(* The normalizer's specification: a raw record, parsed, and its output    *)
(* parsed again.                                                           *)
(***************************************************************************)
RawMetrics ==
  JsOf([intensityFactor : JsOf({1}),
        tss : {Undefined, Val(0), Val(40)},
        ratings : JsOf({[nm |-> 5, ac |-> 3, map |-> 2, ftp |-> 4]})])

RawWorkoutDetails ==
  [equipment : JsOf({<<"bike">>}), descriptions : JsOf({<<"about">>}),
   level : JsOf({"", "basic"}), triggers : JsOf({"intervals"}),
   featuredRaces : JsOf({<<"race">>}), metrics : RawMetrics,
   tags : JsOf({<<"tag">>})]

RawLibraryContent ==
  [level : JsOf({"", "basic"}), tags : JsOf({<<"tag">>}),
   descriptions : JsOf({<<"about">>}), metrics : RawMetrics]

NormInit ==
  /\ token = None
  /\ riderProfile = None
  /\ inflight = {}
  /\ last = NoCall
  /\ authHistory = "none"
  /\ LibIdle
  /\ ShellIdle
  /\ raw \in {[schema |-> "WorkoutDetailsSchema", record |-> r] :
                r \in RawWorkoutDetails}
            \cup {[schema |-> "LibraryContentSchema", record |-> r] :
                    r \in RawLibraryContent}
  /\ normalized = None
  /\ normOp = "idle"

NormalizeWorkoutDetails ==
  /\ normOp = "idle"
  /\ raw.schema = "WorkoutDetailsSchema"
  /\ normalized' = safeParse(raw.schema, raw.record)
  /\ normOp' = "parse"
  /\ UNCHANGED <<raw, clientVars, libVars, shellVars>>

NormalizeLibraryContent ==
  /\ normOp = "idle"
  /\ raw.schema = "LibraryContentSchema"
  /\ normalized' = safeParse(raw.schema, raw.record)
  /\ normOp' = "parse"
  /\ UNCHANGED <<raw, clientVars, libVars, shellVars>>

\* The output of an accepted record goes through the same schema again.
NormalizeAgain ==
  /\ normOp = "parse"
  /\ normalized.ok
  /\ normalized' = safeParse(raw.schema, normalized.out)
  /\ normOp' = "reparse"
  /\ UNCHANGED <<raw, clientVars, libVars, shellVars>>

NormNext ==
  \/ NormalizeWorkoutDetails
  \/ NormalizeLibraryContent
  \/ NormalizeAgain

NormSpec == NormInit /\ [][NormNext]_vars

(***************************************************************************)
(* Claims about the normalizer.                                            *)
(***************************************************************************)
\* Field f of the raw record carries a value (and, for metrics, so does each
\* of its sub-fields).
Present(f) ==
  /\ raw.record[f].kind = "value"
  /\ f = "metrics" =>
       \A g \in DOMAIN raw.record[f].value : raw.record[f].value[g].kind = "value"

\* The raw record is as the schema requires outside the fields F.
PresentExcept(F) == \A f \in (DOMAIN raw.record) \ F : Present(f)

\* The raw metrics block carries values outside the sub-fields G.
MetricsPresentExcept(G) ==
  /\ raw.record.metrics.kind = "value"
  /\ \A g \in (DOMAIN raw.record.metrics.value) \ G :
       raw.record.metrics.value[g].kind = "value"

\* Sub-field g of the normalized metrics is the raw one.
MetricKept(g) ==
  normalized.out.metrics.value[g] = raw.record.metrics.value[g]

\* C23: a record without a metrics block is accepted with tss = 0 and
\* all-zero ratings; a metrics block whose ratings, or whose
\* intensityFactor, is missing or null is accepted with that sub-field
\* defaulted and the other metric fields kept.
C23_MetricsDefaulted ==
  normOp = "parse" /\ PresentExcept({"metrics"}) =>
    /\ raw.record.metrics.kind = "undefined" =>
         /\ normalized.ok
         /\ normalized.out.metrics.kind = "value"
         /\ normalized.out.metrics.value.tss = Val(0)
         /\ normalized.out.metrics.value.ratings = Val(ZeroRatings)
    /\ MetricsPresentExcept({"ratings"})
       /\ raw.record.metrics.value.ratings.kind # "value" =>
         /\ normalized.ok
         /\ normalized.out.metrics.value.ratings = Val(ZeroRatings)
         /\ MetricKept("tss") /\ MetricKept("intensityFactor")
    /\ MetricsPresentExcept({"intensityFactor"})
       /\ raw.record.metrics.value.intensityFactor.kind # "value" =>
         /\ normalized.ok
         /\ normalized.out.metrics.value.intensityFactor = Val(0)
         /\ MetricKept("tss") /\ MetricKept("ratings")

\* C24: in each record type, a level that is absent or null, and a triggers
\* that is absent or null, normalizes to the empty string; the record is not
\* rejected.
C24_LevelTriggersEmpty ==
  normOp = "parse" =>
    \A f \in {"level", "triggers"} \cap DOMAIN raw.record :
      PresentExcept({f}) /\ raw.record[f].kind # "value" =>
        normalized.ok /\ normalized.out[f] = Val("")

\* C25: each list-valued field normalizes to a sequence, the empty one when
\* the field is absent or null.
C25_ListsNeverNull ==
  normOp = "parse" =>
    \A f \in {"equipment", "featuredRaces", "tags", "descriptions"}
               \cap DOMAIN raw.record :
      PresentExcept({f}) =>
        /\ normalized.ok
        /\ normalized.out[f].kind = "value"
        /\ raw.record[f].kind # "value" => normalized.out[f] = Val(<<>>)

\* C26: normalizing the output of an accepted record again is accepted and
\* yields the same record.
C26_Idempotent ==
  [][normOp' = "reparse" => normalized' = normalized]_vars

C26_Witness ==
  /\ normOp = "reparse"
  /\ raw.schema = "WorkoutDetailsSchema"
  /\ raw.record.level = Undefined
  /\ raw.record.metrics.kind = "value"
  /\ raw.record.metrics.value.tss = Undefined
  /\ raw.record.metrics.value.ratings = Undefined
  /\ normalized.ok
  /\ normalized.out.level = Val("")
  /\ normalized.out.metrics.value.tss = Val(0)
  /\ normalized.out.metrics.value.ratings = Val(ZeroRatings)

(***************************************************************************)
(* The server shell of index.ts around one client: main awaits             *)
(* autoAuthenticate, then connects the transport and serves tool calls.    *)
(* startup is "main" before autoAuthenticate runs, "onepassword" and       *)
(* "plain" while its two authenticate calls are awaited, "fallback"        *)
(* between the two attempts and "serving" once the transport is connected. *)
(***************************************************************************)
ShellNotAuthenticatedError ==
  [text |-> "Not authenticated. Please configure ... environment variables.",
   detail |-> None]

ShellInit ==
  /\ token = None
  /\ riderProfile = None
  /\ inflight = {}
  /\ last = NoCall
  /\ authHistory = "none"
  /\ LibIdle
  /\ NormIdle
  /\ isAuthenticated = FALSE
  /\ startup = "main"

\* wahooClient.authenticate(credentials) up to its await.
ShellLogin(awaiting) ==
  /\ inflight' = inflight \cup {callAPIFetch([op |-> "authenticate", args |-> None,
                                               variables |-> None, posts |-> 0])}
  /\ startup' = awaiting
  /\ UNCHANGED <<token, riderProfile, last, authHistory, isAuthenticated>>
  /\ UNCHANGED <<libVars, normVars>>

\* An attempt is skipped or fails before it calls the client.
ShellSkip(next) ==
  /\ startup' = next
  /\ UNCHANGED <<clientVars, isAuthenticated>>
  /\ UNCHANGED <<libVars, normVars>>

\* The awaited authenticate call settles and isAuthenticated is set whether
\* or not it threw.
ShellLoginResumeAlways(onFailure) ==
  \E call \in inflight, response \in Failures \cup {Ok(l) : l \in Logins} :
    /\ call.op = "authenticate"
    /\ LET r == callAPI(call, response)
           s == IF r.threw
                  THEN [token |-> token, riderProfile |-> riderProfile,
                        threw |-> TRUE, error |-> r.error]
                  ELSE authenticateStore(token, riderProfile, r.data)
       IN  /\ token' = s.token
           /\ riderProfile' = s.riderProfile
           /\ authHistory' = IF ~s.threw THEN "succeeded"
                             ELSE IF authHistory = "none" THEN "failed"
                             ELSE authHistory
           /\ inflight' = inflight \ {call}
           /\ last' = [op |-> call.op, posts |-> r.posts,
                       response |-> Some(response), decoded |-> r.decoded,
                       threw |-> s.threw, error |-> s.error,
                       value |-> IF s.threw THEN None ELSE Some("void")]
           /\ isAuthenticated' = TRUE
           /\ startup' = "serving"
           /\ UNCHANGED <<libVars, normVars>>

\* The awaited authenticate call settles (as in authenticateResume): when it
\* returns, isAuthenticated is set and autoAuthenticate is over; when it
\* throws, the catch block logs and autoAuthenticate goes on.
ShellLoginResume(onFailure) ==
  \E call \in inflight, response \in Failures \cup {Ok(l) : l \in Logins} :
    /\ call.op = "authenticate"
    /\ LET r == callAPI(call, response)
           s == IF r.threw
                  THEN [token |-> token, riderProfile |-> riderProfile,
                        threw |-> TRUE, error |-> r.error]
                  ELSE authenticateStore(token, riderProfile, r.data)
       IN  /\ token' = s.token
           /\ riderProfile' = s.riderProfile
           /\ authHistory' = IF ~s.threw THEN "succeeded"
                             ELSE IF authHistory = "none" THEN "failed"
                             ELSE authHistory
           /\ inflight' = inflight \ {call}
           /\ last' = [op |-> call.op, posts |-> r.posts,
                       response |-> Some(response), decoded |-> r.decoded,
                       threw |-> s.threw, error |-> s.error,
                       value |-> IF s.threw THEN None ELSE Some("void")]
           /\ isAuthenticated' = IF s.threw THEN isAuthenticated ELSE TRUE
           /\ startup' = IF s.threw THEN onFailure ELSE "serving"
           /\ UNCHANGED <<libVars, normVars>>

\* autoAuthenticate, first attempt: both 1Password references may be set or
\* not, and getCredentialsFrom1Password may return the credentials or throw.
autoAuthenticate ==
  /\ startup = "main"
  /\ \E configured \in BOOLEAN, found \in BOOLEAN :
       IF configured /\ found
         THEN ShellLogin("onepassword")
         ELSE ShellSkip("fallback")

autoAuthenticateResume ==
  /\ startup = "onepassword"
  /\ ShellLoginResume("fallback")

\* autoAuthenticate, second attempt: reached only when the first did not
\* return; the plain credentials may be set or not.
autoAuthenticatePlain ==
  /\ startup = "fallback"
  /\ \E configured \in BOOLEAN :
       IF configured
         THEN ShellLogin("plain")
         ELSE ShellSkip("serving")

autoAuthenticatePlainResume ==
  /\ startup = "plain"
  /\ ShellLoginResume("serving")

\* The CallTool handler: every case first tests isAuthenticated.
ServeRefused ==
  /\ startup = "serving"
  /\ ~isAuthenticated
  /\ last' = [op |-> "CallTool", posts |-> 0, response |-> None,
              decoded |-> FALSE, threw |-> TRUE,
              error |-> ShellNotAuthenticatedError, value |-> None]
  /\ UNCHANGED <<token, riderProfile, inflight, authHistory>>
  /\ UNCHANGED besideClient

\* A tool call passes the test and reaches the client.
Admitted == startup = "serving" /\ isAuthenticated

ServeGetCalendar == Admitted /\ getCalendarWorkouts
ServeGetWorkoutDetails == Admitted /\ getWorkoutDetails
ServeGetRiderProfile == Admitted /\ getEnhancedRiderProfile
ServeScheduleWorkout == Admitted /\ scheduleWorkout
ServeRescheduleWorkout == Admitted /\ rescheduleWorkout
ServeRemoveWorkout == Admitted /\ removeWorkout
ServeGetWorkouts == Admitted /\ getWorkoutLibrary
ServeGetCyclingWorkouts == Admitted /\ getCyclingWorkouts
ServeGetFitnessTestHistory == Admitted /\ getFitnessTestHistory
ServeGetFitnessTestDetails == Admitted /\ getFitnessTestDetails

ShellNext ==
  \/ autoAuthenticate
  \/ autoAuthenticateResume
  \/ autoAuthenticatePlain
  \/ autoAuthenticatePlainResume
  \/ ServeRefused
  \/ ServeGetCalendar
  \/ getCalendarWorkoutsResume
  \/ ServeGetWorkoutDetails
  \/ getWorkoutDetailsResume
  \/ ServeGetRiderProfile
  \/ getEnhancedRiderProfileResume
  \/ ServeScheduleWorkout
  \/ scheduleWorkoutResume
  \/ ServeRescheduleWorkout
  \/ rescheduleWorkoutResume
  \/ ServeRemoveWorkout
  \/ removeWorkoutResume
  \/ ServeGetWorkouts
  \/ getWorkoutLibraryResume
  \/ ServeGetCyclingWorkouts
  \/ getCyclingWorkoutsResume
  \/ ServeGetFitnessTestHistory
  \/ getFitnessTestHistoryResume
  \/ ServeGetFitnessTestDetails
  \/ getFitnessTestDetailsResume

ShellSpec == ShellInit /\ [][ShellNext]_vars

(***************************************************************************)
(* Claims about the server shell.                                          *)
(***************************************************************************)
\* C29: in the server shell isAuthenticated = true implies that the client
\* holds a token; a tool call admitted by the isAuthenticated test never
\* fails in the client's not-authenticated guard; isAuthenticated never
\* changes once startup is over; and the plain-credentials attempt is made
\* only when the 1Password attempt has not succeeded.
C29_FlagImpliesToken ==
  [][/\ isAuthenticated' => token' # None
     /\ isAuthenticated => ~GuardFailed
     /\ startup = "serving" => isAuthenticated' = isAuthenticated
     /\ startup' = "plain" => ~isAuthenticated /\ authHistory # "succeeded"]_vars

C29_Witness ==
  /\ startup = "serving"
  /\ isAuthenticated
  /\ token # None
  /\ last.op = "getCalendarWorkouts" /\ last.response # None /\ ~last.threw

(***************************************************************************)
(* The heart-rate zones getEnhancedRiderProfile derives, for every whole    *)
(* lactate threshold heart rate from 1 to MaxLthr in the server's answer.  *)
(***************************************************************************)
\* The largest lactate threshold heart rate tried.
MaxLthr == 220

\* getEnhancedRiderProfile settling on an answer whose most recent test is
\* 'ok' and carries any of these heart rates.
getEnhancedRiderProfileResumeLthr ==
  \E call \in inflight,
     response \in {Ok([mostRecentTest |-> Some([status |-> "ok",
                                                lactateThresholdHeartRate |-> n])]) :
                     n \in 1..MaxLthr} :
    /\ call.op = "getEnhancedRiderProfile"
    /\ LET testData == response.data.mostRecentTest
       IN  Return(call, response,
                  IF testData = None \/ Get(testData).status # "ok"
                    THEN None
                    ELSE Some([lactateThresholdHeartRate |->
                                 Get(testData).lactateThresholdHeartRate,
                               heartRateZones |-> calculateHeartRateZones(
                                 Get(testData).lactateThresholdHeartRate)]))

ZoneNext ==
  \/ authenticate
  \/ authenticateResume
  \/ getEnhancedRiderProfile
  \/ getEnhancedRiderProfileResumeLthr

ZoneSpec == Init /\ [][ZoneNext]_vars

(***************************************************************************)
(* Claims about the heart-rate zones.                                      *)
(***************************************************************************)
\* After a successful login, getEnhancedRiderProfile settled last and
\* returned a profile.
ZonesReturned ==
  /\ authHistory = "succeeded"
  /\ last.op = "getEnhancedRiderProfile"
  /\ last.response # None /\ ~last.threw
  /\ Get(last.value) # None

\* The heart rate it was derived from, and its zones.
lthrReturned == Get(Get(last.value)).lactateThresholdHeartRate
zones == Get(Get(last.value)).heartRateZones

\* b is pct percent of the heart rate rounded to the nearest whole number (a
\* half rounds up).
NearestPct(b, pct) ==
  /\ 100 * b - 50 <= pct * lthrReturned
  /\ pct * lthrReturned < 100 * b + 50

\* Five zones numbered 1 to 5 that tile the whole numbers from 0 on, with the
\* boundaries at 68, 83, 94 and 105 percent of the LTHR.
ZonesTile ==
  /\ Len(zones) = 5
  /\ \A i \in 1..5 : zones[i].zone = i
  /\ zones[1].min = 0
  /\ \A i \in 1..4 :
       /\ zones[i].max # None
       /\ zones[i].min <= Get(zones[i].max)
       /\ zones[i + 1].min = Get(zones[i].max) + 1
  /\ zones[5].max = None
  /\ NearestPct(Get(zones[1].max), 68)
  /\ NearestPct(Get(zones[2].max), 83)
  /\ NearestPct(Get(zones[3].max), 94)
  /\ NearestPct(Get(zones[4].max), 105)

\* C30: for every positive whole LTHR the derived zones are five zones
\* numbered 1 to 5 tiling the non-negative whole numbers: zone 1 starts at 0,
\* each later zone starts one above the previous zone's max, zone 5 is
\* unbounded, every bounded zone has min <= max, and the boundaries are 68,
\* 83, 94 and 105 percent of the LTHR, rounded.
C30_ZonesTile ==
  ZonesReturned => ZonesTile

\* C30 as it holds: the same for every whole LTHR of at least 9.
C30_ZonesTileFromNine ==
  ZonesReturned /\ lthrReturned >= 9 => ZonesTile

C30_Witness ==
  /\ ZonesReturned
  /\ lthrReturned = 178
  /\ Get(zones[1].max) = 121
  /\ zones[5].min = 188

====
